---- MODULE Spec2Model ----
(***************************************************************************)
(* Model of the meeting-summary repository: the structured response        *)
(* extractor (src/llm_handler.py, LLMHandler._parse_summary_response), the  *)
(* chunk store / context retriever (src/rag_system.py, RAGSystem) and the   *)
(* pipeline that calls them (src/app.py, process_meeting).                  *)
(*                                                                         *)
(* Text is modelled as a sequence of lexemes.  Every lexeme stands for a    *)
(* fixed piece of text:                                                     *)
(*   "H2" = "##"   "H3" = "###"   "SP" = " "   "NL" = "\n"   "COLON" = ":" *)
(*   "G_INFO" "G_TOPICS" "G_ACTION" "G_DEC" "G_NOTES" = the five glyphs     *)
(*   "MEETING" "SUMMARY" "INFORMATION" "MAIN" "TOPICS" "DISCUSSED"          *)
(*   "ACTION" "ITEMS" "KEY" "DECISIONS" "MADE" "IMPORTANT" "NOTES"          *)
(*   "DETAILS" = these words in any letter case (matching is IGNORECASE)    *)
(*   "NEXTSTEPS" = "& Next Steps"     "FOLLOWUPS" = "& Follow-ups"          *)
(*   "W1" = "We discussed budget."    "W2" = "- Budget"                     *)
(*   "NA" = "not available" (exactly this lower-case text)                  *)
(* A hash lexeme is always followed by a non-hash lexeme, so "H2" is a run  *)
(* of exactly two and "H3" a run of exactly three hash signs.               *)
(***************************************************************************)
EXTENDS Integers, Sequences, FiniteSets, TLC

VARIABLES
    raw,          \* argument of _parse_summary_response: [type, val]
    pc,           \* "call" before the call, "returned" / "raised" after it
    sections,     \* the record the call returned (a function on its keys)
    vectorstore,  \* RAGSystem.vectorstore: "None" or "Chroma"
    collection,   \* the Chroma collection: chunk id -> [document, metadata]
    last,         \* the last RAGSystem call: its arguments and its result
    nStores,      \* number of process_and_store_transcript calls made
    persisted,    \* the collection as of the last completed persist()
    run,          \* the process_meeting call in progress, or the last one
    clock,        \* datetime.now(), in half seconds
    ingested,     \* the generate_meeting_id calls made: [content, at, meeting_id]
    saved         \* the files of meeting_data/: meeting id -> record

parseVars == <<raw, pc, sections>>
storeVars == <<vectorstore, collection, last, nStores, persisted>>
pipeVars  == <<run, clock, ingested, saved>>
vars      == <<raw, pc, sections, vectorstore, collection, last, nStores, persisted,
               run, clock, ingested, saved>>

\* The state outside a process_meeting call; a local not yet assigned is <<>>
NoRun ==
    [pc |-> "idle", meeting_id |-> <<>>, debug_mode |-> FALSE, transcript |-> <<>>,
     meeting_context |-> <<>>, summary_data |-> <<>>, trace |-> <<>>, shown |-> <<>>]

\* The pipeline state of a process that has handled no upload yet
PipelineAtRest ==
    /\ run = NoRun
    /\ clock = 0
    /\ ingested = <<>>
    /\ saved = <<>>

----------------------------------------------------------------------------
(* Python str helpers                                                       *)

Whitespace == {"SP", "NL"}

RECURSIVE LStrip(_)
LStrip(s) ==
    IF s # <<>> /\ Head(s) \in Whitespace THEN LStrip(Tail(s)) ELSE s

RECURSIVE RStrip(_)
RStrip(s) ==
    IF s # <<>> /\ s[Len(s)] \in Whitespace
    THEN RStrip(SubSeq(s, 1, Len(s) - 1))
    ELSE s

\* str.strip()
Strip(s) == RStrip(LStrip(s))

\* str.endswith("not available")
EndsWithNotAvailable(s) == s # <<>> /\ s[Len(s)] = "NA"

----------------------------------------------------------------------------
(* The regular expressions of lines 152-183, over lexemes.                  *)
(* A pattern is [head, skip, stop]:                                         *)
(*   head  the part before the capture group: a sequence of elements, each  *)
(*         [star |-> FALSE, set |-> S] (one lexeme of S) or                 *)
(*         [star |-> TRUE,  set |-> S] (S*, greedy);                        *)
(*   skip  the lexemes of the greedy class right before the group:          *)
(*         whitespace, or colon and whitespace;                             *)
(*   stop  the alternatives of the lookahead, each a sequence of lexeme     *)
(*         sets; end of text ($) is an alternative of every pattern.        *)

Lit(t)   == [star |-> FALSE, set |-> {t}]
Hash2    == [star |-> FALSE, set |-> {"H2", "H3"}]   \* "##" also matches inside "###"
Hash3    == Lit("H3")
WsStar   == [star |-> TRUE, set |-> Whitespace]      \* greedy whitespace
Sp       == Lit("SP")

ColonWs  == Whitespace \cup {"COLON"}                \* [:\s]

StopHash2 == <<{"H2", "H3"}>>                        \* ## (and so ###)
StopHash3 == <<{"H3"}>>                              \* ###
StopWords(a, b) == <<{a}, {"SP"}, {b}>>

\* "### <glyph> <words>" with single spaces, words given as a lexeme sequence
RECURSIVE Words(_)
Words(ws) ==
    IF Len(ws) = 1 THEN <<Lit(ws[1])>>
    ELSE <<Lit(ws[1]), Sp>> \o Words(Tail(ws))

Strict(glyph, ws)  == [head |-> <<Hash3, Sp, Lit(glyph), Sp>> \o Words(ws),
                       skip |-> Whitespace, stop |-> {StopHash3}]
Spaced(glyph, ws)  == [head |-> <<Hash3, WsStar, Lit(glyph), WsStar>> \o Words(ws),
                       skip |-> Whitespace, stop |-> {StopHash3}]
Loose(ws, stops)   == [head |-> Words(ws), skip |-> ColonWs, stop |-> stops]

SectionNames ==
    <<"summary", "meeting_info", "topics", "action_items", "decisions", "notes">>

SectionKeys == {SectionNames[i] : i \in 1..Len(SectionNames)}

patterns ==
    [summary |->
        <<[head |-> <<Hash2, Sp, Lit("MEETING"), Sp, Lit("SUMMARY")>>,
           skip |-> Whitespace, stop |-> {StopHash2, StopHash3}],
          [head |-> <<Hash2, WsStar, Lit("MEETING"), WsStar, Lit("SUMMARY")>>,
           skip |-> Whitespace, stop |-> {StopHash2, StopHash3}],
          Loose(<<"MEETING", "SUMMARY">>,
                {StopWords("MEETING", "INFORMATION"), StopWords("KEY", "DETAILS")})>>,
     meeting_info |->
        <<Strict("G_INFO", <<"MEETING", "INFORMATION">>),
          Spaced("G_INFO", <<"MEETING", "INFORMATION">>),
          Loose(<<"MEETING", "INFORMATION">>, {StopWords("MAIN", "TOPICS")})>>,
     topics |->
        <<Strict("G_TOPICS", <<"MAIN", "TOPICS", "DISCUSSED">>),
          Spaced("G_TOPICS", <<"MAIN", "TOPICS", "DISCUSSED">>),
          Loose(<<"MAIN", "TOPICS", "DISCUSSED">>, {StopWords("ACTION", "ITEMS")})>>,
     action_items |->
        <<Strict("G_ACTION", <<"ACTION", "ITEMS", "NEXTSTEPS">>),
          Spaced("G_ACTION", <<"ACTION", "ITEMS", "NEXTSTEPS">>),
          Loose(<<"ACTION", "ITEMS">>, {StopWords("KEY", "DECISIONS")})>>,
     decisions |->
        <<Strict("G_DEC", <<"KEY", "DECISIONS", "MADE">>),
          Spaced("G_DEC", <<"KEY", "DECISIONS", "MADE">>),
          Loose(<<"KEY", "DECISIONS">>, {StopWords("IMPORTANT", "NOTES")})>>,
     notes |->
        <<Strict("G_NOTES", <<"IMPORTANT", "NOTES", "FOLLOWUPS">>),
          Spaced("G_NOTES", <<"IMPORTANT", "NOTES", "FOLLOWUPS">>),
          Loose(<<"IMPORTANT", "NOTES">>, {})>>]

----------------------------------------------------------------------------
(* re.search(pattern, response, re.DOTALL | re.IGNORECASE)                  *)

\* Position after the head elements k.. matched at position i, 0 if no match.
\* A star is followed by a lexeme outside its class, so greedy is exact.
RECURSIVE MatchHead(_, _, _, _)
MatchHead(head, k, text, i) ==
    IF k > Len(head) THEN i
    ELSE IF head[k].star
         THEN IF i <= Len(text) /\ text[i] \in head[k].set
              THEN MatchHead(head, k, text, i + 1)
              ELSE MatchHead(head, k + 1, text, i)
         ELSE IF i <= Len(text) /\ text[i] \in head[k].set
              THEN MatchHead(head, k + 1, text, i + 1)
              ELSE 0

\* The lookahead alternative lit matches at position i.
LitAt(lit, text, i) ==
    /\ i + Len(lit) - 1 <= Len(text)
    /\ \A j \in 1..Len(lit) : text[i + j - 1] \in lit[j]

\* the lookahead (an alternative or end of text) at position i
StopAt(p, text, i) ==
    i = Len(text) + 1 \/ \E lit \in p.stop : LitAt(lit, text, i)

RECURSIVE SkipClass(_, _, _)
SkipClass(set, text, i) ==
    IF i <= Len(text) /\ text[i] \in set THEN SkipClass(set, text, i + 1) ELSE i

\* The match object: found, and group(1) of the leftmost match.  The lazy
\* group with its lookahead always succeeds under DOTALL, so the leftmost
\* match is at the leftmost position where the head matches; the lazy group
\* ends at the first position where the lookahead holds.
Search(p, text) ==
    LET starts == {i \in 1..Len(text) : MatchHead(p.head, 1, text, i) # 0}
    IN  IF starts = {} THEN [found |-> FALSE, group |-> <<>>]
        ELSE LET i0   == CHOOSE i \in starts : \A j \in starts : i <= j
                 from == SkipClass(p.skip, text, MatchHead(p.head, 1, text, i0))
                 to   == CHOOSE e \in from..(Len(text) + 1) :
                            /\ StopAt(p, text, e)
                            /\ \A f \in from..(e - 1) : ~StopAt(p, text, f)
             IN  [found |-> TRUE, group |-> SubSeq(text, from, to - 1)]

----------------------------------------------------------------------------
(* LLMHandler._parse_summary_response, lines 139-213                        *)

\* Lines 187-193: the first pattern of the list that matches ends the loop,
\* whatever its group holds; content stays None when no pattern matches.
RECURSIVE FirstMatch(_, _, _)
FirstMatch(pattern_list, k, response) ==
    IF k > Len(pattern_list) THEN [isNone |-> TRUE, content |-> <<>>, used |-> 0]
    ELSE LET match == Search(pattern_list[k], response)
         IN  IF match.found
             THEN [isNone |-> FALSE, content |-> Strip(match.group), used |-> k]
             ELSE FirstMatch(pattern_list, k + 1, response)

\* section_name as text: words and underscores
KeyText ==
    [summary      |-> <<"summary">>,
     meeting_info |-> <<"meeting", "_", "info">>,
     topics       |-> <<"topics">>,
     action_items |-> <<"action", "_", "items">>,
     decisions    |-> <<"decisions">>,
     notes        |-> <<"notes">>]

\* str.replace('_', ' ')
ReplaceUnderscore(s) ==
    [i \in 1..Len(s) |-> IF s[i] = "_" THEN "SP" ELSE s[i]]

Capitalized ==
    [summary |-> "Summary", meeting |-> "Meeting", info |-> "Info",
     topics |-> "Topics", action |-> "Action", items |-> "Items",
     decisions |-> "Decisions", notes |-> "Notes"]

\* str.title(): every word gets a capital first letter, the rest lower case
Title(s) ==
    [i \in 1..Len(s) |-> IF s[i] \in DOMAIN Capitalized THEN Capitalized[s[i]] ELSE s[i]]

\* Mutant: the placeholder built without title()
PlaceholderUntitled(section_name) ==
    ReplaceUnderscore(KeyText[section_name]) \o <<"SP", "NA">>

\* Line 198: f"{section_name.replace('_', ' ').title()} not available"
Placeholder(section_name) ==
    Title(ReplaceUnderscore(KeyText[section_name])) \o <<"SP", "NA">>

\* Lines 195-198: the value stored for one section
SectionValue(section_name, response) ==
    LET m == FirstMatch(patterns[section_name], 1, response)
    IN  IF ~m.isNone /\ m.content # <<>> /\ Strip(m.content) # <<>>
        THEN m.content
        ELSE Placeholder(section_name)

ErrorRawOutput == <<"Failed to parse structured response - showing raw output">>

\* Line 202: all(val.endswith("not available") for val in sections.values())
AllNotAvailable(secs) ==
    \A k \in DOMAIN secs : EndsWithNotAvailable(secs[k])

\* Mutant: the error key is added but summary keeps its placeholder
OverrideKeepsPlaceholder(secs, response) ==
    IF AllNotAvailable(secs)
    THEN [k \in SectionKeys \cup {"error"} |->
            IF k = "error" THEN ErrorRawOutput ELSE secs[k]]
    ELSE secs

\* Lines 202-206
OverrideIfNothingFound(secs, response) ==
    IF AllNotAvailable(secs)
    THEN [k \in SectionKeys \cup {"error"} |->
            IF k = "summary" THEN response
            ELSE IF k = "error" THEN ErrorRawOutput
            ELSE secs[k]]
    ELSE secs

\* Lines 142-206, the body of the try: response.strip() raises AttributeError
\* unless response is a str.
TryBody(r) ==
    IF r.type # "str"
    THEN [raised |-> TRUE, value |-> <<>>,
          exc |-> <<"'NoneType' object has no attribute 'strip'">>]
    ELSE LET response == Strip(r.val)
             secs     == [k \in SectionKeys |-> SectionValue(k, response)]
         IN  [raised |-> FALSE, value |-> OverrideIfNothingFound(secs, response),
              exc |-> <<>>]

\* Lines 208-213: the record built from a caught exception.  The name
\* response is still bound to the argument when strip() raised.
ExceptBody(r, exc) ==
    [summary |-> IF r.type = "str" /\ r.val # <<>> THEN r.val
                 ELSE <<"No response received">>,
     error   |-> <<"Failed to parse structured response: ">> \o exc]

\* Mutant: no except clause, the exception leaves the call
ParseWithoutExcept(r) ==
    LET t == TryBody(r)
    IN  IF t.raised
        THEN [outcome |-> "raised", value |-> <<>>]
        ELSE [outcome |-> "returned", value |-> t.value]

\* The whole call: [outcome, value]
ParseSummaryResponseOf(r) ==
    LET t == TryBody(r)
    IN  IF t.raised
        THEN [outcome |-> "returned", value |-> ExceptBody(r, t.exc)]
        ELSE [outcome |-> "returned", value |-> t.value]

----------------------------------------------------------------------------
(* The responses the extractor is called with: every concatenation of at    *)
(* most MaxSegs pieces of model output, the two documented responses, and   *)
(* None.                                                                    *)

MaxSegs == 3

StrictHeading(glyph, ws) ==
    <<"H3", "SP", glyph, "SP">> \o
    [i \in 1..(2 * Len(ws) - 1) |-> IF i % 2 = 1 THEN ws[(i + 1) \div 2] ELSE "SP"] \o
    <<"NL">>

SummaryHeading  == <<"H2", "SP", "MEETING", "SP", "SUMMARY", "NL">>
InfoHeading     == StrictHeading("G_INFO", <<"MEETING", "INFORMATION">>)
TopicsHeading   == StrictHeading("G_TOPICS", <<"MAIN", "TOPICS", "DISCUSSED">>)
ActionHeading   == StrictHeading("G_ACTION", <<"ACTION", "ITEMS", "NEXTSTEPS">>)
DecisionHeading == StrictHeading("G_DEC", <<"KEY", "DECISIONS", "MADE">>)
NotesHeading    == StrictHeading("G_NOTES", <<"IMPORTANT", "NOTES", "FOLLOWUPS">>)

Segments ==
    { <<"NL">>, <<"W1">>, <<"W2">>, <<"NA">>,
      SummaryHeading,                                            \* "## MEETING SUMMARY\n"
      <<"H2", "MEETING", "SUMMARY", "NL">>,                      \* "##MEETINGSUMMARY\n"
      <<"MEETING", "SP", "SUMMARY", "COLON", "SP">>,             \* "MEETING SUMMARY: "
      <<"H2", "SP", "KEY", "SP", "DETAILS", "NL">>,              \* "## KEY DETAILS\n"
      TopicsHeading,
      <<"MAIN", "SP", "TOPICS", "SP", "DISCUSSED", "COLON", "SP">>,
      <<"ACTION", "SP", "ITEMS", "COLON", "SP">>,                \* "ACTION ITEMS: "
      <<"H3", "SP", "KEY", "SP", "DECISIONS", "SP", "MADE", "NL">>,  \* glyph missing
      <<"KEY", "SP", "DECISIONS", "COLON", "SP">> }              \* "KEY DECISIONS: "

RECURSIVE Concat(_)
Concat(ss) == IF ss = <<>> THEN <<>> ELSE Head(ss) \o Concat(Tail(ss))

\* Section 8 of the specification, "Scenario"
ScenarioText ==
    SummaryHeading \o <<"W1", "NL">> \o TopicsHeading \o <<"W2", "NL">>

\* The template of lines 100-127 filled in
TemplateText ==
    SummaryHeading \o <<"W1", "NL", "NL">> \o
    <<"H2", "SP", "KEY", "SP", "DETAILS", "NL">> \o
    InfoHeading \o <<"W2", "NL", "NL">> \o
    TopicsHeading \o <<"W2", "NL", "NL">> \o
    ActionHeading \o <<"W2", "NL", "NL">> \o
    DecisionHeading \o <<"W2", "NL", "NL">> \o
    NotesHeading \o <<"W1">>

\* Heading-like but malformed variants of the decisions heading
MalformedDecisionHeadings ==
    { <<"H3", "SP", "KEY", "SP", "DECISIONS", "SP", "MADE", "NL">>,           \* glyph missing
      <<"H2", "SP", "G_DEC", "SP", "KEY", "SP", "DECISIONS", "SP", "MADE", "NL">>,  \* two hashes
      <<"KEY", "SP", "DECISIONS", "COLON", "SP">> }                           \* plain text

\* Section 8 of the specification, "Fallback precedence": the exact topics
\* heading and content, then a malformed decisions heading and content
FallbackTexts ==
    {TopicsHeading \o <<"W2", "NL">> \o h \o <<"W1">> : h \in MalformedDecisionHeadings}

Texts ==
    {Concat(ss) : ss \in UNION {[1..n -> Segments] : n \in 0..MaxSegs}}
        \cup {ScenarioText, TemplateText} \cup FallbackTexts

Responses ==
    {[type |-> "str", val |-> t] : t \in Texts} \cup {[type |-> "NoneType", val |-> <<>>]}

InitParse ==
    /\ raw \in Responses
    /\ pc = "call"
    /\ sections = <<>>
    /\ vectorstore = "Chroma"
    /\ collection = <<>>
    /\ last = [op |-> "none"]
    /\ nStores = 0
    /\ persisted = <<>>
    /\ PipelineAtRest

\* One call of _parse_summary_response(raw)
ParseSummaryResponse ==
    /\ pc = "call"
    /\ LET r == ParseSummaryResponseOf(raw)
       IN  /\ pc' = r.outcome
           /\ sections' = IF r.outcome = "returned" THEN r.value ELSE <<>>
    /\ UNCHANGED <<raw, storeVars, pipeVars>>

NextParse == ParseSummaryResponse

SpecParse == InitParse /\ [][NextParse]_vars

----------------------------------------------------------------------------
(* Claims about _parse_summary_response, checked under SpecParse            *)

Returned == pc = "returned"
StrCall  == pc = "returned" /\ raw.type = "str"
HasError == "error" \in DOMAIN sections

\* lexeme t occurs in text s
Occurs(t, s) == \E i \in 1..Len(s) : s[i] = t

\* C1: for every input string the returned record has all six keys and every
\* one of the six values is a non-empty string.
C1_ExtractionTotality ==
    StrCall =>
        /\ SectionKeys \subseteq DOMAIN sections
        /\ \A k \in SectionKeys : sections[k] # <<>>

\* No pattern of any section yields a non-empty trimmed capture on the text.
NothingRecoverable(text) ==
    \A k \in SectionKeys : \A n \in 1..Len(patterns[k]) :
        LET m == Search(patterns[k][n], Strip(text))
        IN  ~m.found \/ Strip(m.group) = <<>>

\* C2 as stated: for a non-empty input from which no heading is recoverable,
\* summary is the original input, nothing removed, and error is present.
C2_SummaryIsOriginalInput ==
    (StrCall /\ raw.val # <<>> /\ NothingRecoverable(raw.val)) =>
        /\ HasError
        /\ sections.summary = raw.val

\* C2 amended: for a non-empty input from which no heading is recoverable,
\* summary is the input with its leading and trailing whitespace removed
\* (every other character kept, in order) and error is present.
C2_SummaryIsStrippedInput ==
    (StrCall /\ raw.val # <<>> /\ NothingRecoverable(raw.val)) =>
        /\ HasError
        /\ sections["error"] = ErrorRawOutput
        /\ \E a, b \in 0..Len(raw.val) :
              /\ a + b <= Len(raw.val)
              /\ \A i \in 1..a : raw.val[i] \in Whitespace
              /\ \A i \in (Len(raw.val) - b + 1)..Len(raw.val) : raw.val[i] \in Whitespace
              /\ sections.summary = SubSeq(raw.val, a + 1, Len(raw.val) - b)
              /\ (sections.summary # <<>> =>
                    /\ sections.summary[1] \notin Whitespace
                    /\ sections.summary[Len(sections.summary)] \notin Whitespace)

C2_Witness ==
    /\ StrCall /\ NothingRecoverable(raw.val)
    /\ raw.val = <<"NL", "W1", "NL">>
    /\ sections.summary = <<"W1">>
    /\ HasError

\* The section resolved to its placeholder: no pattern of its list matched,
\* or the first that matched captured nothing.
ResolvedToPlaceholder(k) ==
    LET m == FirstMatch(patterns[k], 1, Strip(raw.val))
    IN  m.isNone \/ m.content = <<>>

\* C3: summary is replaced by the raw text and the error key is added if and
\* only if all six sections resolved to their placeholders; when a section
\* holds captured content there is no error key and every captured value is
\* kept as captured.
C3_OverrideIffNothingRecovered ==
    StrCall =>
        /\ HasError <=> \A k \in SectionKeys : ResolvedToPlaceholder(k)
        /\ (\E k \in SectionKeys : ~ResolvedToPlaceholder(k)) =>
              \A k \in SectionKeys :
                  ~ResolvedToPlaceholder(k) =>
                      sections[k] = FirstMatch(patterns[k], 1, Strip(raw.val)).content

\* The value C4 describes: the trimmed capture of the first pattern, in list
\* order, that matches with a non-empty trimmed capture; "none" if there is
\* no such pattern.
RECURSIVE FirstNonEmptyCapture(_, _, _)
FirstNonEmptyCapture(pattern_list, k, text) ==
    IF k > Len(pattern_list) THEN [none |-> TRUE, content |-> <<>>]
    ELSE LET m == Search(pattern_list[k], text)
         IN  IF m.found /\ Strip(m.group) # <<>>
             THEN [none |-> FALSE, content |-> Strip(m.group)]
             ELSE FirstNonEmptyCapture(pattern_list, k + 1, text)

\* C4: each section's value is the trimmed capture of the first pattern that
\* matches with a non-empty trimmed capture, and the placeholder only when no
\* pattern of its list yields one (summary aside when it was overridden).
C4_FirstNonEmptyMatchWins ==
    StrCall =>
        \A k \in SectionKeys :
            (k = "summary" /\ HasError) \/
            LET c == FirstNonEmptyCapture(patterns[k], 1, Strip(raw.val))
            IN  IF c.none THEN EndsWithNotAvailable(sections[k]) /\ Len(sections[k]) > 1
                ELSE sections[k] = c.content

\* C5: on a response with the exact topics heading and content followed by a
\* malformed decisions heading and content, topics is captured by its first
\* pattern, decisions by a later one, and neither value holds the other
\* section's heading or content.
C5_FallbackWithoutCrossContamination ==
    (StrCall /\ raw.val \in FallbackTexts) =>
        /\ FirstMatch(patterns.topics, 1, Strip(raw.val)).used = 1
        /\ FirstMatch(patterns.decisions, 1, Strip(raw.val)).used \in {2, 3}
        /\ Occurs("W2", sections.topics)
        /\ ~Occurs("W1", sections.topics)
        /\ ~Occurs("DECISIONS", sections.topics)
        /\ Occurs("W1", sections.decisions)
        /\ ~Occurs("W2", sections.decisions)

\* C6: the documented scenario "## MEETING SUMMARY\nWe discussed
\* budget.\n### <glyph> Main Topics Discussed\n- Budget\n" yields summary
\* "We discussed budget.", topics "- Budget", the four other sections their
\* placeholders, and no error key.
C6_DocumentedScenario ==
    (Returned /\ raw = [type |-> "str", val |-> ScenarioText]) =>
        sections = [summary      |-> <<"W1">>,
                    meeting_info |-> <<"Meeting", "SP", "Info", "SP", "NA">>,
                    topics       |-> <<"W2">>,
                    action_items |-> <<"Action", "SP", "Items", "SP", "NA">>,
                    decisions    |-> <<"Decisions", "SP", "NA">>,
                    notes        |-> <<"Notes", "SP", "NA">>]

C6_Witness ==
    /\ Returned
    /\ raw = [type |-> "str", val |-> ScenarioText]
    /\ sections.topics = <<"W2">>
    /\ ~HasError

\* C7: no call ends by raising; a call whose body raised returns a record
\* whose summary is the raw text, or a placeholder when the raw value is
\* empty, together with an error key describing the failure.
C7_NeverRaises ==
    /\ pc \in {"call", "returned"}
    /\ (Returned /\ raw.type # "str") =>
          /\ HasError
          /\ sections["error"] # <<>>
          /\ sections["error"] # ErrorRawOutput
          /\ sections.summary = IF raw.val # <<>> THEN raw.val
                                ELSE <<"No response received">>

C7_Witness ==
    /\ Returned
    /\ raw.type = "NoneType"
    /\ HasError
    /\ sections.summary = <<"No response received">>

\* The plain-text names of the six sections, as the third patterns spell them
LooseNames ==
    [summary      |-> <<"MEETING", "SP", "SUMMARY">>,
     meeting_info |-> <<"MEETING", "SP", "INFORMATION">>,
     topics       |-> <<"MAIN", "SP", "TOPICS", "SP", "DISCUSSED">>,
     action_items |-> <<"ACTION", "SP", "ITEMS">>,
     decisions    |-> <<"KEY", "SP", "DECISIONS">>,
     notes        |-> <<"IMPORTANT", "SP", "NOTES">>]

\* text holds the lexeme sequence name
Contains(text, name) ==
    \E i \in 1..Len(text) :
        /\ i + Len(name) - 1 <= Len(text)
        /\ SubSeq(text, i, i + Len(name) - 1) = name

\* The section's value is the capture of its third pattern
CapturedByLoose(k) ==
    LET m == FirstMatch(patterns[k], 1, Strip(raw.val))
    IN  m.used = 3 /\ m.content # <<>>

\* C16: a value captured by the third (loose) pattern of its section ends
\* where the next known section name occurs, so it holds the plain-text name
\* of no other section, also when the section that follows in the template
\* is missing from the response.
C16_LooseBoundedByNextSection ==
    StrCall =>
        \A k \in SectionKeys :
            (CapturedByLoose(k) /\ ~(k = "summary" /\ HasError)) =>
                /\ sections[k] = FirstMatch(patterns[k], 1, Strip(raw.val)).content
                /\ \A k2 \in SectionKeys \ {k} : ~Contains(sections[k], LooseNames[k2])

----------------------------------------------------------------------------
(* RAGSystem: the chunk store and the context retriever (src/rag_system.py) *)
(*                                                                         *)
(* A transcript is a sequence of lexemes: sentences, and "DS" for the       *)
(* separator ". " between them.  Sentence "A" is 600 characters long,       *)
(* "B" 150 and "C" 700, all shorter than CHUNK_SIZE, so the splitter never  *)
(* has to cut inside a sentence.                                            *)

CHUNK_SIZE    == 1000
CHUNK_OVERLAP == 200

MaxStores == 2        \* process_and_store_transcript calls of a run

LexemeLen  == [A |-> 600, B |-> 150, C |-> 700, DS |-> 2, SP |-> 1]
MeetingIds == {"m1", "m2"}

RECURSIVE Join(_, _)
\* sep.join(parts), parts a sequence of texts
Join(parts, sep) ==
    IF parts = <<>> THEN <<>>
    ELSE IF Len(parts) = 1 THEN parts[1]
    ELSE parts[1] \o <<sep>> \o Join(Tail(parts), sep)

\* The transcripts stored: "" (no chunk), "B" (one chunk), "A. C" (two
\* chunks), "A. B. C" (two chunks that share "B") and "A. C. A" (three)
SentenceSeqs ==
    { <<>>, <<"B">>, <<"A", "C">>, <<"A", "B", "C">>, <<"A", "C", "A">> }

Transcripts == {Join([i \in 1..Len(f) |-> <<f[i]>>], "DS") : f \in SentenceSeqs}

RECURSIVE TextLen(_)
\* len(text)
TextLen(t) == IF t = <<>> THEN 0 ELSE LexemeLen[Head(t)] + TextLen(Tail(t))

RECURSIVE SplitOn(_, _, _)
\* text.split(sep) without the empty pieces; cur is the piece being read
SplitOn(text, sep, cur) ==
    IF text = <<>> THEN (IF cur = <<>> THEN <<>> ELSE <<cur>>)
    ELSE IF Head(text) = sep
         THEN (IF cur = <<>> THEN <<>> ELSE <<cur>>) \o SplitOn(Tail(text), sep, <<>>)
         ELSE SplitOn(Tail(text), sep, Append(cur, Head(text)))

\* The length the merge loop keeps for the pieces of current_doc joined by
\* the separator
JoinedLen(cur) == TextLen(Join(cur, "DS"))

RECURSIVE DropForOverlap(_, _)
\* The while loop of the merge: pieces are dropped from the front of
\* current_doc until what is left fits CHUNK_OVERLAP and leaves room for the
\* next piece, of length len
DropForOverlap(cur, len) ==
    LET total == JoinedLen(cur)
        sep   == IF Len(cur) > 0 THEN LexemeLen["DS"] ELSE 0
    IN  IF total > CHUNK_OVERLAP \/ (total + len + sep > CHUNK_SIZE /\ total > 0)
        THEN DropForOverlap(Tail(cur), len)
        ELSE cur

RECURSIVE MergeSplitsLossy(_, _, _)
\* Mutant: when a piece does not fit, the pieces collected so far are cut
\* down to the overlap without having been emitted as a chunk
MergeSplitsLossy(splits, cur, docs) ==
    IF splits = <<>>
    THEN (IF cur = <<>> THEN docs ELSE Append(docs, Join(cur, "DS")))
    ELSE LET d   == Head(splits)
             sep == IF Len(cur) > 0 THEN LexemeLen["DS"] ELSE 0
         IN  IF JoinedLen(cur) + TextLen(d) + sep > CHUNK_SIZE /\ Len(cur) > 0
             THEN MergeSplitsLossy(Tail(splits),
                                   Append(DropForOverlap(cur, TextLen(d)), d), docs)
             ELSE MergeSplitsLossy(Tail(splits), Append(cur, d), docs)

RECURSIVE MergeSplits(_, _, _)
\* The merge of the pieces into chunks of at most CHUNK_SIZE characters
\* that share up to CHUNK_OVERLAP characters
MergeSplits(splits, cur, docs) ==
    IF splits = <<>>
    THEN (IF cur = <<>> THEN docs ELSE Append(docs, Join(cur, "DS")))
    ELSE LET d   == Head(splits)
             sep == IF Len(cur) > 0 THEN LexemeLen["DS"] ELSE 0
         IN  IF JoinedLen(cur) + TextLen(d) + sep > CHUNK_SIZE /\ Len(cur) > 0
             THEN MergeSplits(Tail(splits),
                              Append(DropForOverlap(cur, TextLen(d)), d),
                              Append(docs, Join(cur, "DS")))
             ELSE MergeSplits(Tail(splits), Append(cur, d), docs)

\* Line 42: self.text_splitter.split_text(transcript), the splitter of
\* lines 18-22 on a text whose coarsest separator is ". "
split_text(transcript) == MergeSplits(SplitOn(transcript, "DS", <<>>), <<>>, <<>>)

\* Mutant: the storage key leaves out the meeting id
ChunkIdWithoutMeeting(meeting_id, i) == <<"meeting", "_chunk_", i>>

\* Line 62: f"{meeting_id}_chunk_{i}"
ChunkId(meeting_id, i) == <<meeting_id, "_chunk_", i>>

\* Lines 48-55: the metadata of chunk i (i counts from 0)
Metadata(meeting_id, i, chunks) ==
    [meeting_id   |-> meeting_id,
     chunk_index  |-> i,
     chunk_type   |-> "transcript",
     total_chunks |-> Len(chunks)]

\* Lines 59-63: add_texts(texts, metadatas, ids) writes every chunk under its
\* id; an id already in the collection is overwritten
AddTexts(coll, chunks, meeting_id) ==
    LET ids == {ChunkId(meeting_id, i) : i \in 0..(Len(chunks) - 1)}
    IN  [id \in (DOMAIN coll) \cup ids |->
            IF id \in ids
            THEN [document |-> chunks[id[3] + 1],
                  metadata |-> Metadata(meeting_id, id[3], chunks)]
            ELSE coll[id]]

\* Mutant: the check of lines 44-45 is missing, an empty list of chunks is
\* written and persisted like any other
ProcessAndStoreUnchecked(coll, vs, transcript, meeting_id, fault) ==
    LET chunks == split_text(transcript)
    IN  IF vs = "None" \/ fault = "add_texts"
        THEN [success |-> FALSE, message |-> <<"Error processing transcript: ">>,
              coll |-> coll, calls |-> IF vs = "None" THEN <<>> ELSE <<"add_texts">>,
              flushed |-> FALSE]
        ELSE IF fault = "persist"
        THEN [success |-> FALSE, message |-> <<"Error processing transcript: ">>,
              coll |-> AddTexts(coll, chunks, meeting_id),
              calls |-> <<"add_texts", "persist">>, flushed |-> FALSE]
        ELSE [success |-> TRUE,
              message |-> <<"Successfully stored ", Len(chunks), " chunks">>,
              coll |-> AddTexts(coll, chunks, meeting_id),
              calls |-> <<"add_texts", "persist">>, flushed |-> TRUE]

\* Mutant: one add_texts call per chunk, so a failing write leaves the
\* chunks written before it
ProcessAndStorePerChunk(coll, vs, transcript, meeting_id, fault) ==
    LET chunks == split_text(transcript)
    IN  IF chunks = <<>>
        THEN [success |-> FALSE, message |-> <<"No chunks created from transcript">>,
              coll |-> coll, calls |-> <<>>, flushed |-> FALSE]
        ELSE IF vs = "None"
        THEN [success |-> FALSE, message |-> <<"Error processing transcript: ">>,
              coll |-> coll, calls |-> <<>>, flushed |-> FALSE]
        ELSE IF fault = "add_texts"
        THEN [success |-> FALSE, message |-> <<"Error processing transcript: ">>,
              coll |-> [id \in (DOMAIN coll) \cup {ChunkId(meeting_id, 0)} |->
                          IF id = ChunkId(meeting_id, 0)
                          THEN [document |-> chunks[1],
                                metadata |-> Metadata(meeting_id, 0, chunks)]
                          ELSE coll[id]],
              calls |-> <<"add_texts", "add_texts">>, flushed |-> FALSE]
        ELSE IF fault = "persist"
        THEN [success |-> FALSE, message |-> <<"Error processing transcript: ">>,
              coll |-> AddTexts(coll, chunks, meeting_id),
              calls |-> <<"add_texts", "persist">>, flushed |-> FALSE]
        ELSE [success |-> TRUE,
              message |-> <<"Successfully stored ", Len(chunks), " chunks">>,
              coll |-> AddTexts(coll, chunks, meeting_id),
              calls |-> <<"add_texts", "persist">>, flushed |-> TRUE]

\* Lines 37-71: the result of process_and_store_transcript, the collection
\* it leaves, the backing-store calls it made and whether persist() completed.
\* fault names the backing-store call that raises, if any; with no vector
\* store the attribute access of line 59 raises before any call is made.
ProcessAndStoreOf(coll, vs, transcript, meeting_id, fault) ==
    LET chunks == split_text(transcript)
    IN  IF chunks = <<>>
        THEN [success |-> FALSE, message |-> <<"No chunks created from transcript">>,
              coll |-> coll, calls |-> <<>>, flushed |-> FALSE]
        ELSE IF vs = "None"
        THEN [success |-> FALSE, message |-> <<"Error processing transcript: ">>,
              coll |-> coll, calls |-> <<>>, flushed |-> FALSE]
        ELSE IF fault = "add_texts"
        THEN [success |-> FALSE, message |-> <<"Error processing transcript: ">>,
              coll |-> coll, calls |-> <<"add_texts">>, flushed |-> FALSE]
        ELSE IF fault = "persist"
        THEN [success |-> FALSE, message |-> <<"Error processing transcript: ">>,
              coll |-> AddTexts(coll, chunks, meeting_id),
              calls |-> <<"add_texts", "persist">>, flushed |-> FALSE]
        ELSE [success |-> TRUE,
              message |-> <<"Successfully stored ", Len(chunks), " chunks">>,
              coll |-> AddTexts(coll, chunks, meeting_id),
              calls |-> <<"add_texts", "persist">>, flushed |-> TRUE]

\* The orders in which the backing store may hand back a set of ids
Orders(ids) ==
    {o \in [1..Cardinality(ids) -> ids] : \A i, j \in 1..Cardinality(ids) : o[i] = o[j] => i = j}

RECURSIVE InsertByIndex(_, _)
\* x put into the sorted list after every element whose key is not larger
InsertByIndex(sorted, x) ==
    IF sorted = <<>> THEN <<x>>
    ELSE IF x[2].chunk_index < Head(sorted)[2].chunk_index
         THEN <<x>> \o sorted
         ELSE <<Head(sorted)>> \o InsertByIndex(Tail(sorted), x)

\* Mutant: the chunks are joined in the order the store returned them
Unsorted(pairs) == pairs

RECURSIVE SortedByChunkIndex(_)
\* Line 105: sorted(chunks_with_metadata, key=lambda x: x[1]['chunk_index']),
\* a stable sort
SortedByChunkIndex(pairs) ==
    IF pairs = <<>> THEN <<>>
    ELSE InsertByIndex(SortedByChunkIndex(SubSeq(pairs, 1, Len(pairs) - 1)),
                       pairs[Len(pairs)])

\* Lines 98-100: the ids vectorstore.get(where={"meeting_id": meeting_id}) selects
Matching(coll, meeting_id) ==
    {id \in DOMAIN coll : coll[id].metadata.meeting_id = meeting_id}

\* Mutant: the failure of the store call is not caught
GetMeetingContextUncaught(coll, vs, order, fault) ==
    IF vs = "None" THEN [outcome |-> "returned", value |-> <<>>]
    ELSE IF fault THEN [outcome |-> "raised", value |-> <<>>]
    ELSE [outcome |-> "returned",
          value   |-> Join([i \in 1..Len(order) |-> coll[order[i]].document], "SP")]

\* Lines 91-113: get_meeting_context; order is the order in which the store
\* returns the matching chunks, fault says that the store call raises (and
\* then it returns nothing, order is empty)
GetMeetingContextOf(coll, vs, order, fault) ==
    IF vs = "None" THEN [outcome |-> "returned", value |-> <<>>]
    ELSE IF fault THEN [outcome |-> "returned", value |-> <<>>]
    ELSE IF order = <<>> THEN [outcome |-> "returned", value |-> <<>>]
    ELSE LET chunks_with_metadata ==
                 [i \in 1..Len(order) |-> <<coll[order[i]].document, coll[order[i]].metadata>>]
             sorted_chunks == SortedByChunkIndex(chunks_with_metadata)
         IN  [outcome |-> "returned",
              value   |-> Join([i \in 1..Len(sorted_chunks) |-> sorted_chunks[i][1]], "SP")]

\* Lines 73-89: retrieve_relevant_chunks; ranked is the result of the
\* similarity search, at most k ids
RetrieveRelevantChunksOf(coll, vs, ranked, fault) ==
    IF vs = "None" THEN [outcome |-> "returned", value |-> <<>>]
    ELSE IF fault THEN [outcome |-> "returned", value |-> <<>>]
    ELSE [outcome |-> "returned",
          value   |-> [i \in 1..Len(ranked) |-> coll[ranked[i]].document]]

\* Lines 13-35: the constructor; the vector store stays None when Chroma
\* cannot be initialised
InitStore ==
    /\ vectorstore \in {"None", "Chroma"}
    /\ collection = <<>>
    /\ last = [op |-> "none"]
    /\ nStores = 0
    /\ persisted = <<>>
    /\ raw = [type |-> "NoneType", val |-> <<>>]
    /\ pc = "call"
    /\ sections = <<>>
    /\ PipelineAtRest

StoreFaults == {"none", "add_texts", "persist"}

ProcessAndStoreTranscript ==
    /\ nStores < MaxStores
    /\ \E transcript \in Transcripts, meeting_id \in MeetingIds, fault \in StoreFaults :
          LET r == ProcessAndStoreOf(collection, vectorstore, transcript, meeting_id, fault)
          IN  /\ collection' = r.coll
              /\ persisted' = IF r.flushed THEN r.coll ELSE persisted
              /\ last' = [op |-> "store", meeting_id |-> meeting_id,
                          transcript |-> transcript, outcome |-> "returned",
                          success |-> r.success, message |-> r.message,
                          calls |-> r.calls]
    /\ nStores' = nStores + 1
    /\ UNCHANGED <<vectorstore, parseVars, pipeVars>>

\* The points of lines 42-66 at which the process can die
CrashPoints == {"split_text", "add_texts", "persist"}

\* The process dies inside process_and_store_transcript, before persist()
\* of line 66 has completed.  What the calls made so far wrote is in memory
\* only; the restarted process (lines 13-35) opens the persisted collection.
CrashInProcessAndStore ==
    /\ nStores < MaxStores
    /\ vectorstore = "Chroma"
    /\ \E transcript \in Transcripts, meeting_id \in MeetingIds, point \in CrashPoints :
          LET chunks  == split_text(transcript)
              written == IF point = "persist" /\ chunks # <<>>
                         THEN AddTexts(collection, chunks, meeting_id)
                         ELSE collection
          IN  /\ (chunks = <<>> => point = "split_text")
              /\ collection' = persisted
              /\ last' = [op |-> "store", meeting_id |-> meeting_id,
                          transcript |-> transcript, outcome |-> "crashed",
                          point |-> point, in_memory |-> written]
    /\ vectorstore' \in {"None", "Chroma"}
    /\ nStores' = nStores + 1
    /\ UNCHANGED <<persisted, parseVars, pipeVars>>

GetMeetingContext ==
    /\ \E meeting_id \in MeetingIds, fault \in BOOLEAN :
          \E order \in IF fault THEN {<<>>} ELSE Orders(Matching(collection, meeting_id)) :
              LET r == GetMeetingContextOf(collection, vectorstore, order, fault)
              IN  last' = [op |-> "context", meeting_id |-> meeting_id, fault |-> fault,
                           order |-> order, outcome |-> r.outcome, value |-> r.value]
    /\ UNCHANGED <<vectorstore, collection, nStores, persisted, parseVars, pipeVars>>

MaxK == 1     \* largest k a retrieve_relevant_chunks call is made with

RetrieveRelevantChunks ==
    /\ \E fault \in BOOLEAN, k \in 1..MaxK :
          \E n \in 0..k : \E ranked \in [1..n -> DOMAIN collection] :
              /\ \A i, j \in 1..n : ranked[i] = ranked[j] => i = j
              /\ IF fault THEN n = 0 ELSE n = k \/ n = Cardinality(DOMAIN collection)
              /\ LET r == RetrieveRelevantChunksOf(collection, vectorstore, ranked, fault)
                 IN  last' = [op |-> "retrieve", fault |-> fault, k |-> k,
                              outcome |-> r.outcome, value |-> r.value]
    /\ UNCHANGED <<vectorstore, collection, nStores, persisted, parseVars, pipeVars>>

NextStore ==
    \/ ProcessAndStoreTranscript
    \/ CrashInProcessAndStore
    \/ GetMeetingContext
    \/ RetrieveRelevantChunks

SpecStore == InitStore /\ [][NextStore]_vars

----------------------------------------------------------------------------
(* Claims about the chunk store and the retriever, checked under SpecStore  *)

IndexOf(id) == collection[id].metadata.chunk_index

\* C8: in every reachable state the stored chunks of each meeting_id have
\* chunk_index values that are exactly 0 .. total_chunks-1, total_chunks
\* being the value recorded in those chunks, with no gap and no duplicate.
C8_ChunkIndexInvariant ==
    \A m \in MeetingIds :
        LET ids == Matching(collection, m)
        IN  /\ \A id \in ids :
                  {IndexOf(j) : j \in ids} = 0..(collection[id].metadata.total_chunks - 1)
            /\ \A i, j \in ids : IndexOf(i) = IndexOf(j) => i = j

\* C9: get_meeting_context(meeting_id) returns the texts of exactly the
\* stored chunks of that meeting, in strictly ascending chunk_index order,
\* joined with single spaces, whatever order the store returned them in.
C9_ContextOrdering ==
    (last.op = "context" /\ vectorstore = "Chroma" /\ ~last.fault) =>
        LET ids == Matching(collection, last.meeting_id)
        IN  \E o \in Orders(ids) :
                /\ \A i, j \in 1..Len(o) : i < j => IndexOf(o[i]) < IndexOf(o[j])
                /\ last.value = Join([i \in 1..Len(o) |-> collection[o[i]].document], "SP")

\* The store returned two chunks of the meeting in descending index order,
\* chunks of another meeting are stored too, and the context is ascending.
C9_Witness ==
    /\ last.op = "context" /\ vectorstore = "Chroma" /\ ~last.fault
    /\ Len(last.order) = 2
    /\ IndexOf(last.order[1]) > IndexOf(last.order[2])
    /\ \E id \in DOMAIN collection : collection[id].metadata.meeting_id # last.meeting_id
    /\ last.value = collection[last.order[2]].document \o <<"SP">>
                        \o collection[last.order[1]].document

\* C10: get_meeting_context returns the empty string when no chunk matches,
\* when the vector store is None and when the store call fails;
\* retrieve_relevant_chunks returns an empty list when the store is None or
\* the search fails; neither call ever raises.
C10_RetrievalNeverRaises ==
    /\ last.op \in {"context", "retrieve"} => last.outcome = "returned"
    /\ last.op = "context" =>
          ((vectorstore = "None" \/ last.fault \/ Matching(collection, last.meeting_id) = {})
              => last.value = <<>>)
    /\ last.op = "retrieve" =>
          ((vectorstore = "None" \/ last.fault) => last.value = <<>>)

\* The store call failed for a meeting that has chunks stored.
C10_Witness ==
    /\ last.op = "context"
    /\ last.fault
    /\ Matching(collection, last.meeting_id) # {}
    /\ last.outcome = "returned"
    /\ last.value = <<>>

\* The last step was a process_and_store_transcript call that returned
StoreReturned == last.op = "store" /\ last.outcome = "returned"

\* C11: a process_and_store_transcript call whose split yields zero chunks
\* returns a failure result, raises nothing, makes no add_texts and no
\* persist call, and leaves the collection, in memory and persisted, as it
\* was.
C11_EmptyInputFailure ==
    [][(last'.op = "store" /\ nStores' = nStores + 1
            /\ split_text(last'.transcript) = <<>>
            /\ last'.outcome = "returned") =>
          /\ ~last'.success
          /\ last'.message = <<"No chunks created from transcript">>
          /\ last'.calls = <<>>
          /\ collection' = collection
          /\ persisted' = persisted]_vars

\* An empty transcript was handed to a store that already holds chunks.
C11_Witness ==
    /\ StoreReturned
    /\ last.transcript = <<>>
    /\ ~last.success
    /\ last.calls = <<>>
    /\ vectorstore = "Chroma"
    /\ collection # <<>>

\* The indexes of the chunks of the last store call that the collection shows
VisibleOfLast ==
    LET chunks == split_text(last.transcript)
    IN  {i \in 0..(Len(chunks) - 1) :
            /\ ChunkId(last.meeting_id, i) \in DOMAIN collection
            /\ collection[ChunkId(last.meeting_id, i)] =
                   [document |-> chunks[i + 1],
                    metadata |-> Metadata(last.meeting_id, i, chunks)]}

ChunksOf(coll, meeting_id) ==
    [id \in Matching(coll, meeting_id) |-> coll[id]]

\* The strings get_meeting_context(meeting_id) can return on coll
ContextsOf(coll, vs, meeting_id) ==
    {GetMeetingContextOf(coll, vs, o, FALSE).value : o \in Orders(Matching(coll, meeting_id))}

SentencesOf(text) == SelectSeq(text, LAMBDA x : x \notin {"DS", "SP"})

RECURSIVE IsSubsequence(_, _)
\* a is b with zero or more elements left out
IsSubsequence(a, b) ==
    IF a = <<>> THEN TRUE
    ELSE IF b = <<>> THEN FALSE
    ELSE IF Head(a) = Head(b) THEN IsSubsequence(Tail(a), Tail(b))
    ELSE IsSubsequence(a, Tail(b))

----------------------------------------------------------------------------
(* process_meeting (src/app.py, lines 150-233) and the collaborators it     *)
(* calls, one action per stage.  run.trace lists the stages invoked so far  *)
(* with their outcome, run.shown the st.error and st.success messages put   *)
(* on the page.                                                             *)

MaxMeetings == 2      \* process_meeting calls of a run
MaxClock    == 2      \* last instant of the clock, in half seconds

TicksPerSecond == 2   \* strftime("%Y%m%d_%H%M%S") keeps whole seconds

Contents  == {"f1", "f2"}                   \* audio_file.getvalue()
Md5Prefix == [f1 |-> "d1", f2 |-> "d2"]     \* hashlib.md5(...).hexdigest()[:8]

\* src/utils.py, lines 7-11: f"meeting_{timestamp}_{file_hash}"
GenerateMeetingId(content, now) ==
    <<"meeting_", now \div TicksPerSecond, "_", Md5Prefix[content]>>

\* The responses of the language model in a pipeline run
LLMResponses == {ScenarioText, <<"W1">>}

Event(stage, ok) == [stage |-> stage, ok |-> ok]

\* process_meeting returns: its locals are gone, the page keeps what was shown
Return(r) ==
    [NoRun EXCEPT !.pc = "done", !.meeting_id = r.meeting_id,
                  !.trace = r.trace, !.shown = r.shown]

\* Time passes.  The clock is read by generate_meeting_id (line 154); the
\* time that passes during a process_meeting call is taken after it.
Tick ==
    /\ clock < MaxClock
    /\ run.pc \in {"idle", "done"}
    /\ clock' = clock + 1
    /\ UNCHANGED <<run, ingested, saved, parseVars, storeVars>>

\* Lines 150-158: the button was pressed for an uploaded file
StartProcessMeeting ==
    /\ run.pc \in {"idle", "done"}
    /\ Len(ingested) < MaxMeetings
    /\ \E content \in Contents, debug_mode \in BOOLEAN :
          LET meeting_id == GenerateMeetingId(content, clock)
          IN  /\ run' = [NoRun EXCEPT !.pc = "transcribe", !.meeting_id = meeting_id,
                                       !.debug_mode = debug_mode]
              /\ ingested' = Append(ingested, [content |-> content, at |-> clock,
                                               meeting_id |-> meeting_id])
    /\ UNCHANGED <<clock, saved, parseVars, storeVars>>

\* src/audio_processor.py, lines 27-58: (transcript, error)
\* What the speech-to-text service makes of an upload: nothing, one chunk
\* of text, or two chunks
Transcribed == {<<>>, <<"B">>, <<"A", "DS", "C">>}

\* error is <<>> for None, and then transcript is the text
TranscribeOutcomes ==
    {[transcript |-> t, error |-> <<>>] : t \in Transcribed}
        \cup {[transcript |-> <<>>, error |-> <<e>>] :
                 e \in {"Transcription failed: ", "Error during transcription: "}}

\* Lines 161-173
TranscribeStage ==
    /\ run.pc = "transcribe"
    /\ \E r \in TranscribeOutcomes :
          IF r.error # <<>>
          THEN run' = Return([run EXCEPT
                          !.trace = Append(@, Event("transcribe", FALSE)),
                          !.shown = Append(@, <<"Transcription failed: ">> \o r.error)])
          ELSE IF r.transcript = <<>>
          THEN run' = Return([run EXCEPT
                          !.trace = Append(@, Event("transcribe", FALSE)),
                          !.shown = Append(@, <<"No transcript generated">>)])
          ELSE run' = [run EXCEPT !.pc = "store", !.transcript = r.transcript,
                          !.trace = Append(@, Event("transcribe", TRUE))]
    /\ UNCHANGED <<clock, ingested, saved, parseVars, storeVars>>

\* Mutant: the failure of the store is reported but the pipeline goes on
NextAfterStoreIgnoringFailure(success) == "retrieve"

\* Lines 181-183: return when the store reported failure
NextAfterStore(success) == IF success THEN "retrieve" ELSE "done"

\* Lines 175-183
StoreStage ==
    /\ run.pc = "store"
    /\ \E fault \in StoreFaults :
          LET r == ProcessAndStoreOf(collection, vectorstore, run.transcript,
                                     run.meeting_id, fault)
          IN  /\ collection' = r.coll
              /\ persisted' = IF r.flushed THEN r.coll ELSE persisted
              /\ LET after == [run EXCEPT !.pc = NextAfterStore(r.success),
                                   !.trace = Append(@, Event("store", r.success)),
                                   !.shown = IF r.success THEN @
                                             ELSE Append(@, <<"Vector storage failed: ">>
                                                               \o r.message)]
                 IN  run' = IF after.pc = "done" THEN Return(after) ELSE after
    /\ UNCHANGED <<clock, ingested, saved, parseVars, vectorstore, last, nStores>>

\* Lines 185-189: the result is used as it is, empty or not
RetrieveStage ==
    /\ run.pc = "retrieve"
    /\ \E fault \in BOOLEAN :
          \E order \in IF fault THEN {<<>>}
                        ELSE Orders(Matching(collection, run.meeting_id)) :
              LET r == GetMeetingContextOf(collection, vectorstore, order, fault)
              IN  run' = [run EXCEPT !.pc = "generate", !.meeting_context = r.value,
                              !.trace = Append(@, Event("retrieve", TRUE))]
    /\ UNCHANGED <<clock, ingested, saved, parseVars, storeVars>>

\* What client.generate (src/llm_handler.py, lines 75-85) does: it raises or
\* it returns a response
LLMOutcomes ==
    {[raised |-> TRUE, response |-> <<>>]}
        \cup {[raised |-> FALSE, response |-> t] : t \in LLMResponses}

\* Lines 191-211, with generate_meeting_summary (src/llm_handler.py, lines
\* 63-91): the model is called and its response goes through
\* _parse_summary_response; None comes back when the model call raised.
\* In debug mode test_simple_summary is called first; its result goes to a
\* text area and nowhere else.
GenerateStage ==
    /\ run.pc = "generate"
    /\ \E g \in LLMOutcomes :
          LET tested == run.shown
          IN  IF g.raised
              THEN run' = Return([run EXCEPT
                              !.trace = Append(@, Event("generate", FALSE)),
                              !.shown = tested \o
                                  << <<"Error generating summary: ">>,
                                     <<"Failed to generate summary - check console logs for details">> >>])
              ELSE run' = [run EXCEPT !.pc = "save",
                              !.summary_data =
                                  ParseSummaryResponseOf([type |-> "str", val |-> g.response]).value,
                              !.trace = @ \o <<Event("generate", TRUE), Event("extract", TRUE)>>,
                              !.shown = tested]
    /\ UNCHANGED <<clock, ingested, saved, parseVars, storeVars>>

\* src/utils.py, lines 24-43: the file of the meeting is written, or the
\* failure of the write is returned.  The timestamp field of the record is
\* left out.
SaveMeetingDataOf(files, meeting_id, transcript, summary_data, fails) ==
    IF fails
    THEN [success |-> FALSE, files |-> files]
    ELSE [success |-> TRUE,
          files   |-> [id \in (DOMAIN files) \cup {meeting_id} |->
                         IF id = meeting_id
                         THEN [meeting_id |-> meeting_id,
                               transcript |-> transcript, summary |-> summary_data]
                         ELSE files[id]]]

\* Lines 213-221: a message is shown only when the save succeeded
SaveStage ==
    /\ run.pc = "save"
    /\ \E fails \in BOOLEAN :
          LET r == SaveMeetingDataOf(saved, run.meeting_id, run.transcript,
                                     run.summary_data, fails)
          IN  /\ saved' = r.files
              /\ run' = [run EXCEPT !.pc = "display",
                             !.trace = Append(@, Event("save", r.success)),
                             !.shown = IF r.success
                                       THEN Append(@, <<"Meeting processed successfully! Data saved to ">>)
                                       ELSE @]
    /\ UNCHANGED <<clock, ingested, parseVars, storeVars>>

\* Lines 223-228: display_results
DisplayStage ==
    /\ run.pc = "display"
    /\ run' = Return([run EXCEPT !.trace = Append(@, Event("display", TRUE))])
    /\ UNCHANGED <<clock, ingested, saved, parseVars, storeVars>>

\* src/app.py: the process starts with its RAGSystem constructed
InitPipeline ==
    /\ vectorstore \in {"None", "Chroma"}
    /\ collection = <<>>
    /\ persisted = <<>>
    /\ last = [op |-> "none"]
    /\ nStores = 0
    /\ raw = [type |-> "NoneType", val |-> <<>>]
    /\ pc = "call"
    /\ sections = <<>>
    /\ PipelineAtRest

NextPipeline ==
    \/ Tick
    \/ StartProcessMeeting
    \/ TranscribeStage
    \/ StoreStage
    \/ RetrieveStage
    \/ GenerateStage
    \/ SaveStage
    \/ DisplayStage

SpecPipeline == InitPipeline /\ [][NextPipeline]_vars

----------------------------------------------------------------------------
(* Claims about process_meeting, checked under SpecPipeline                 *)

\* The stages in the order of lines 161-228
StageOrder ==
    <<"transcribe", "store", "retrieve", "generate", "extract", "save", "display">>

\* the stage was invoked in the current (or last) process_meeting call
Invoked(stage) == \E i \in 1..Len(run.trace) : run.trace[i].stage = stage

Failed(stage) ==
    \E i \in 1..Len(run.trace) : run.trace[i].stage = stage /\ ~run.trace[i].ok

\* C13: the stages of a process_meeting call are invoked in the fixed order
\* store, retrieve, generate, extract, save and display, each at most once;
\* a stage is invoked only when every earlier stage completed without
\* reporting failure (save and display being the one last stage);
\* retrieval never ends the call, whatever it returns; after a failed
\* store none of retrieval, generation, extraction and saving is invoked.
C13_OrderAndShortCircuit ==
    /\ Len(run.trace) <= Len(StageOrder)
    /\ \A i \in 1..Len(run.trace) : run.trace[i].stage = StageOrder[i]
    /\ \A i \in 1..(Len(run.trace) - 1) :
          run.trace[i].ok \/ run.trace[i].stage = "save"
    /\ Failed("store") =>
          /\ ~Invoked("retrieve") /\ ~Invoked("generate")
          /\ ~Invoked("extract")  /\ ~Invoked("save") /\ ~Invoked("display")
          /\ run.pc = "done"
    /\ ~Failed("retrieve")
    /\ (Invoked("retrieve") /\ run.pc # "generate") => Invoked("generate")

\* A second upload: the store failed at persist in this call, with chunks
\* of the first upload stored, and the call ended there.
C13_Witness ==
    /\ Len(ingested) = 2
    /\ run.pc = "done"
    /\ run.trace = <<Event("transcribe", TRUE), Event("store", FALSE)>>
    /\ Matching(collection, run.meeting_id) # {}
    /\ saved # <<>>

\* The messages of process_meeting that name a failing stage (lines 168,
\* 172, 182, 210); there is none for the save and none for the display
StageMessages ==
    [transcribe |-> {"Transcription failed: ", "No transcript generated"},
     store      |-> {"Vector storage failed: "},
     retrieve   |-> {},
     generate   |-> {"Failed to generate summary - check console logs for details"},
     extract    |-> {},
     save       |-> {},
     display    |-> {}]

FailureShown(stage) ==
    \E i \in 1..Len(run.shown) : run.shown[i][1] \in StageMessages[stage]

\* C14: whenever a stage of process_meeting fails (the store, the summary
\* generation, the save of the record), no later step is run in that call
\* and a message naming the failing stage is shown.
C14_EveryFailureHaltsAndIsReported ==
    \A i \in 1..Len(run.trace) :
        ~run.trace[i].ok =>
            /\ i = Len(run.trace)
            /\ run.pc = "done"
            /\ FailureShown(run.trace[i].stage)

\* C17: any two generate_meeting_id calls of process_meeting return distinct
\* meeting ids, also for the same file content and within one clock second.
C17_MeetingIdsDistinct ==
    \A i, j \in 1..Len(ingested) :
        i # j => ingested[i].meeting_id # ingested[j].meeting_id


====
